---- MODULE Spec2Model ----
(***************************************************************************)
(* Model of src/io/util.py: the ANFATEC parameter-file reader              *)
(* (read_anfatec_params), the HyperImage constructor and the hyperslice    *)
(* query.                                                                  *)
(*                                                                         *)
(* A line of the parameter file is a sequence of tokens.  A token stands   *)
(* for a run of characters; " " is white space, ":" the separator and ";"  *)
(* the comment mark.  Adjacent tokens are adjacent in the line, so         *)
(* <<"File", "End">> is the line "File...End".                             *)
(***************************************************************************)
EXTENDS Integers, Sequences, FiniteSets, TLC

VARIABLES
    rows,                 \* the lines of the file consumed so far (line 151)
    scan_params,          \* line 144
    file_descriptions,    \* line 142
    spectra_descriptions, \* line 143
    parameters,           \* line 145
    inside_description,   \* line 146
    returned,             \* TRUE once line 189 has returned the three results
    xPixel,               \* int(parms['xPixel']), line 90
    yPixel,               \* int(parms['yPixel']), line 91
    wavelength_file,      \* the values of the wavelength file, in tenths
    channels,             \* the channel descriptors with the payload of their files
    status,               \* "new", "built", or "error" when __init__ raised
    wavelength_data,      \* self.wavelength_data
    local_hyper_image,    \* the local hyper_image as filled by lines 97-106
    local_channel_data,   \* the local channel_data as filled by lines 109-117
    hyper_image,          \* self.hyper_image
    channel_data,         \* self.channel_data
    channel_names,        \* self.channel_names
    calls,                \* the number of hyperslice calls made
    call,                 \* the arguments of the last hyperslice call
    result                \* what the last hyperslice call returned or raised

parserVars == <<rows, scan_params, file_descriptions, spectra_descriptions,
                parameters, inside_description, returned>>

imageVars == <<xPixel, yPixel, wavelength_file, channels, status, wavelength_data,
               local_hyper_image, local_channel_data, hyper_image, channel_data,
               channel_names, calls, call, result>>

vars == <<parserVars, imageVars>>

----------------------------------------------------------------------------
(* Bounds *)

MaxRows == 5

MaxPixel == 2

MaxS == 3

MaxChannels == 2

MaxCalls == 2

----------------------------------------------------------------------------
(* Python helpers used by read_anfatec_params *)

\* an empty dict
EmptyDict == <<>>

\* d[k] = v on a dict
Put(d, k, v) == [x \in (DOMAIN d) \cup {k} |-> IF x = k THEN v ELSE d[x]]

RECURSIVE LStrip(_)
LStrip(r) == IF r # <<>> /\ Head(r) = " " THEN LStrip(Tail(r)) ELSE r

RECURSIVE RStrip(_)
RStrip(r) == IF r # <<>> /\ r[Len(r)] = " " THEN RStrip(SubSeq(r, 1, Len(r) - 1)) ELSE r

\* str.strip()
Strip(r) == RStrip(LStrip(r))

\* row.startswith('File'): the first token begins with the characters File
StartsWithFile(r) == r # <<>> /\ Head(r) = "File"

\* row.endswith('Begin'): the last token ends with the characters Begin
EndsWithBegin(r) == r # <<>> /\ r[Len(r)] \in {"Begin", "SpectrumDescBegin"}

\* row.endswith('SpectrumDescBegin')
EndsWithSpectrumDescBegin(r) == r # <<>> /\ r[Len(r)] = "SpectrumDescBegin"

\* row.endswith('End')
EndsWithEnd(r) == r # <<>> /\ r[Len(r)] \in {"End", "SpectrumDescEnd"}

\* row.endswith('SpectrumDescEnd')
EndsWithSpectrumDescEnd(r) == r # <<>> /\ r[Len(r)] = "SpectrumDescEnd"

\* row.split(':'): the segments between the ":" tokens, at least one
RECURSIVE Split(_)
Split(r) ==
    IF \A i \in 1..Len(r) : r[i] # ":"
    THEN <<r>>
    ELSE LET i == CHOOSE j \in 1..Len(r) :
                      r[j] = ":" /\ \A k \in 1..(j - 1) : r[k] # ":"
         IN  <<SubSeq(r, 1, i - 1)>> \o Split(SubSeq(r, i + 1, Len(r)))

\* lines 177-180: every segment stripped
SplitRow(r) == LET s == Split(r) IN [i \in 1..Len(s) |-> Strip(s[i])]

\* split_row[0]
KeyOf(r) == SplitRow(r)[1]

\* split_row[-1]
ValueOf(r) == SplitRow(r)[Len(SplitRow(r))]

----------------------------------------------------------------------------
(* The lines a file is made of *)

Lines ==
    { <<" ">>,
      <<";", "k1", ":", "v1">>,
      <<"File", "Begin">>,
      <<"SpectrumDescBegin">>,
      <<"File", "End">>,
      <<"SpectrumDescEnd">>,
      <<"k1", ":", "v1">>,
      <<" ", "k1", " ", ":", "v1", ":", "v2", " ">>,
      <<"k2">> }

----------------------------------------------------------------------------
(* read_anfatec_params *)

ParserState == [scan_params |-> scan_params,
                file_descriptions |-> file_descriptions,
                spectra_descriptions |-> spectra_descriptions,
                parameters |-> parameters,
                inside_description |-> inside_description]

\* OnFileEnd with the descriptor put in front of the list
FileEndPrepends(st) ==
    [st EXCEPT !.file_descriptions = <<st.parameters>> \o @,
               !.parameters = EmptyDict,
               !.inside_description = FALSE]

\* OnFileEnd with line 171 left out
FileEndKeepsFlag(st) ==
    [st EXCEPT !.file_descriptions = Append(@, st.parameters),
               !.parameters = EmptyDict]

\* lines 168-171
OnFileEnd(st) ==
    [st EXCEPT !.file_descriptions = Append(@, st.parameters),
               !.parameters = EmptyDict,
               !.inside_description = FALSE]

\* lines 172-174
OnSpectrumDescEnd(st) ==
    [st EXCEPT !.spectra_descriptions = Append(@, st.parameters),
               !.parameters = EmptyDict]

\* lines 177-186
StoreRow(st, row) ==
    IF st.inside_description
    THEN [st EXCEPT !.parameters = Put(@, KeyOf(row), ValueOf(row))]
    ELSE [st EXCEPT !.scan_params = Put(@, KeyOf(row), ValueOf(row))]

\* lines 153-186: the body of the loop for one line of the file
ProcessRow(st, line) ==
    LET row == Strip(line) IN
    IF row = <<>> THEN st
    ELSE IF Head(row) = ";" THEN st
    ELSE IF EndsWithBegin(row) /\ StartsWithFile(row)
         THEN [st EXCEPT !.inside_description = TRUE]
    ELSE IF EndsWithSpectrumDescBegin(row)
         THEN [st EXCEPT !.inside_description = TRUE]
    ELSE LET s1 == IF EndsWithEnd(row) /\ StartsWithFile(row)
                   THEN OnFileEnd(st) ELSE st
             s2 == IF EndsWithSpectrumDescEnd(row)
                   THEN OnSpectrumDescEnd(s1) ELSE s1
         IN  StoreRow(s2, row)

----------------------------------------------------------------------------
(* numpy arrays: a shape and a value at every index, indices from 0 *)

Indices(shape) == (0..(shape[1] - 1)) \X (0..(shape[2] - 1)) \X (0..(shape[3] - 1))

\* np.zeros(shape)
Zeros(shape) == [shape |-> shape, at |-> [idx \in Indices(shape) |-> 0]]

\* np.transpose with the first two axes swapped
Transpose(a) ==
    LET shape == <<a.shape[2], a.shape[1], a.shape[3]>>
    IN  [shape |-> shape,
         at |-> [idx \in Indices(shape) |-> a.at[<<idx[2], idx[1], idx[3]>>]]]

\* np.flip along axis 1, which is also a[:, ::-1, :]
FlipColumns(a) ==
    [shape |-> a.shape,
     at |-> [idx \in Indices(a.shape) |->
                a.at[<<idx[1], a.shape[2] - 1 - idx[2], idx[3]>>]]]

\* np.flip along axis 0
FlipRows(a) ==
    [shape |-> a.shape,
     at |-> [idx \in Indices(a.shape) |->
                a.at[<<a.shape[1] - 1 - idx[1], idx[2], idx[3]>>]]]

\* np.rot90(a, k=2): a half turn in place of the quarter turn
Rot180(a) == FlipColumns(FlipRows(a))

\* np.rot90(a, k=-1): a quarter turn clockwise, flip(transpose(a), 1)
Rot90Clockwise(a) == FlipColumns(Transpose(a))

\* lines 123-124 left out
NoMirror(a) == a

\* lines 123-124: a[:, ::-1, :]
MirrorColumns(a) == FlipColumns(a)

\* lines 120-124 for one array
Normalize(a) == MirrorColumns(Rot90Clockwise(a))

\* int(x) of a float given in tenths: truncation towards zero
IntOf(x) == IF x >= 0 THEN x \div 10 ELSE -((-x) \div 10)

----------------------------------------------------------------------------
(* HyperImage.__init__ *)

\* np.split(data, n) raises unless n sections of equal length result
CanSplit(data, n) == n > 0 /\ Len(data) % n = 0

\* np.split(data, n)[i]
Section(data, n, i) ==
    LET len == Len(data) \div n IN SubSeq(data, i * len + 1, (i + 1) * len)

\* Pixel with the payload split by xPixel first
PixelColumnMajor(data, i, j) ==
    Section(Section(data, xPixel, j), yPixel, i)

\* lines 104-105 and 115-116: the pixel j of the line i of a payload
Pixel(data, i, j) == Section(Section(data, yPixel, i), xPixel, j)

\* the length of a pixel of a payload that splits
PixelLen(data) == (Len(data) \div yPixel) \div xPixel

Splits(data) == CanSplit(data, yPixel) /\ CanSplit(Section(data, yPixel, 0), xPixel)

\* line 94: np.loadtxt returns a 0-d array for a file of one value, and
\* shape[0] of it raises
WavelengthsLoad == Len(wavelength_file) >= 2

\* line 106: the assignment broadcasts a pixel of length S or 1
HyperFills ==
    /\ Splits(channels[1].data)
    /\ PixelLen(channels[1].data) \in {Len(wavelength_file), 1}

\* line 117: the assignment takes a pixel of length 1
ChannelFills(ch) ==
    /\ Splits(channels[ch].data)
    /\ PixelLen(channels[ch].data) = 1

\* lines 97-106
FilledHyper ==
    LET shape == <<xPixel, yPixel, Len(wavelength_file)>>
        data == channels[1].data
        pifm_scaling == channels[1].Scale
    IN  [shape |-> shape,
         at |-> [idx \in Indices(shape) |->
                    LET pixel == Pixel(data, idx[2], idx[1])
                    IN  pifm_scaling *
                            (IF Len(pixel) = 1 THEN pixel[1] ELSE pixel[idx[3] + 1])]]

\* lines 109-117
FilledChannels ==
    LET shape == <<xPixel, yPixel, Len(channels) - 1>>
    IN  [shape |-> shape,
         at |-> [idx \in Indices(shape) |->
                    LET channel == channels[idx[3] + 2]
                    IN  channel.Scale * Pixel(channel.data, idx[2], idx[1])[1]]]

\* line 111
Captions == [ch \in 1..(Len(channels) - 1) |-> channels[ch + 1].Caption]

NoArray == Zeros(<<0, 0, 0>>)

NoCall == [start |-> 0, stop |-> 0, rows |-> <<>>, cols |-> <<>>]

NoResult == [kind |-> "none"]

\* lines 80-124
HyperImage_init ==
    /\ status = "new"
    /\ IF WavelengthsLoad /\ HyperFills
          /\ \A ch \in 2..Len(channels) : ChannelFills(ch)
       THEN /\ status' = "built"
            /\ wavelength_data' = wavelength_file
            /\ local_hyper_image' = FilledHyper
            /\ local_channel_data' = FilledChannels
            /\ hyper_image' = Normalize(FilledHyper)
            /\ channel_data' = Normalize(FilledChannels)
            /\ channel_names' = Captions
       ELSE /\ status' = "error"
            /\ UNCHANGED <<wavelength_data, local_hyper_image, local_channel_data,
                           hyper_image, channel_data, channel_names>>
    /\ UNCHANGED <<xPixel, yPixel, wavelength_file, channels, calls, call, result>>
    /\ UNCHANGED parserVars

----------------------------------------------------------------------------
(* hyperslice *)

\* lines 59-60
Wavenumberlist == [i \in 1..Len(wavelength_data) |-> IntOf(wavelength_data[i])]

\* list.index(x) raises ValueError unless x occurs in the list
Occurs(list, x) == \E i \in 1..Len(list) : list[i] = x

\* list.index(x), from 0, for an x that occurs
IndexOf(list, x) ==
    (CHOOSE i \in 1..Len(list) : list[i] = x /\ \A j \in 1..(i - 1) : list[j] # x) - 1

\* lines 54-57
DefaultRows(r) == IF r = <<>> THEN <<0, channel_data.shape[1]>> ELSE r

DefaultCols(c) == IF c = <<>> THEN <<0, channel_data.shape[2]>> ELSE c

Min(a, b) == IF a <= b THEN a ELSE b

\* the indices a[lo:hi] selects on an axis of length n (lo, hi >= 0)
SliceRange(bounds, n) == Min(bounds[1], n)..(Min(bounds[2], n) - 1)

\* the positions of the cube behind hyper_image[rows[0]:rows[1], cols[0]:cols[1]]
Window(r, c) ==
    SliceRange(DefaultRows(r), hyper_image.shape[1])
        \X SliceRange(DefaultCols(c), hyper_image.shape[2])

\* line 68: slc is a view of the plane dst of the cube, so slc += ... writes the cube
AddPlane(cube, window, dst, src) ==
    [cube EXCEPT !.at = [idx \in Indices(cube.shape) |->
        IF <<idx[1], idx[2]>> \in window /\ idx[3] = dst
        THEN cube.at[idx] + cube.at[<<idx[1], idx[2], src>>]
        ELSE cube.at[idx]]]

\* lines 67-68: the iterations i, i + 1, ..., span - 1 of the loop
RECURSIVE SliceLoop(_, _, _, _, _)
SliceLoop(cube, window, start_index, i, span) ==
    IF i >= span THEN cube
    ELSE SliceLoop(AddPlane(cube, window, start_index, start_index + i),
                   window, start_index, i + 1, span)

\* the 2-D array slc seen through the view at line 70
PlaneOf(cube, window, index) ==
    [w \in window |-> cube.at[<<w[1], w[2], index>>]]

Wavenumbers == {300, 305, 310, 999}

Bounds == {<<>>, <<0, 1>>, <<1, 2>>}

\* lines 29-70
hyperslice ==
    /\ status = "built"
    /\ calls < MaxCalls
    /\ \E start \in Wavenumbers, stop \in Wavenumbers, r \in Bounds, c \in Bounds :
          /\ call' = [start |-> start, stop |-> stop, rows |-> r, cols |-> c]
          /\ IF Occurs(Wavenumberlist, stop) /\ Occurs(Wavenumberlist, start)
             THEN LET start_index == IndexOf(Wavenumberlist, stop)
                      stop_index == IndexOf(Wavenumberlist, start)
                      span == stop_index - start_index
                      after == SliceLoop(hyper_image, Window(r, c), start_index, 0, span)
                  IN  /\ hyper_image' = after
                      /\ result' = [kind |-> "array",
                                    slc |-> PlaneOf(after, Window(r, c), start_index)]
             ELSE /\ result' = [kind |-> "ValueError"]
                  /\ UNCHANGED hyper_image
    /\ calls' = calls + 1
    /\ UNCHANGED <<xPixel, yPixel, wavelength_file, channels, status, wavelength_data,
                   local_hyper_image, local_channel_data, channel_data, channel_names>>
    /\ UNCHANGED parserVars

----------------------------------------------------------------------------
(* The inputs of a build *)

Seeds == {1, -2}

Scales == {2, -3}

\* a payload of n 32-bit integers, all different
Payload(first, seed, n) == [k \in 1..n |-> first + seed * (k - 1)]

\* the hyperspectral descriptor followed by n channel descriptors; the payload
\* of the first holds len values and the payload of every other one X * Y
Descriptors(n, len, seed, scale) ==
    [d \in 1..(n + 1) |->
        IF d = 1
        THEN [Scale |-> scale, Caption |-> "hyPIRFwd", data |-> Payload(1, seed, len)]
        ELSE [Scale |-> scale + d, Caption |-> <<"channel", d - 1>>,
              data |-> Payload(100 * d, seed, xPixel * yPixel)]]

WaveValues == {3002, 3059, 3101}

Axes == UNION {[1..n -> WaveValues] : n \in 1..MaxS}

\* the lengths tried for the hyperspectral payload: X*Y*S values, one value per
\* pixel, and one value too many
PayloadLengths(S) == {xPixel * yPixel * S, xPixel * yPixel, xPixel * yPixel * S + 1}

ImageNew ==
    /\ status = "new"
    /\ wavelength_data = <<>>
    /\ local_hyper_image = NoArray
    /\ local_channel_data = NoArray
    /\ hyper_image = NoArray
    /\ channel_data = NoArray
    /\ channel_names = <<>>
    /\ calls = 0
    /\ call = NoCall
    /\ result = NoResult

\* no HyperImage is being built
ImageIdle ==
    /\ xPixel = 1
    /\ yPixel = 1
    /\ wavelength_file = <<>>
    /\ channels = <<>>
    /\ ImageNew

\* no parameter file is being read
ParserIdle ==
    /\ rows = <<>>
    /\ scan_params = EmptyDict
    /\ file_descriptions = <<>>
    /\ spectra_descriptions = <<>>
    /\ parameters = EmptyDict
    /\ inside_description = FALSE
    /\ returned = FALSE

\* lines 142-146
ParserInit == ParserIdle /\ ImageIdle

\* one iteration of the loop of line 151
ReadRow ==
    /\ ~returned
    /\ Len(rows) < MaxRows
    /\ \E line \in Lines :
          LET st == ProcessRow(ParserState, line) IN
          /\ rows' = Append(rows, line)
          /\ scan_params' = st.scan_params
          /\ file_descriptions' = st.file_descriptions
          /\ spectra_descriptions' = st.spectra_descriptions
          /\ parameters' = st.parameters
          /\ inside_description' = st.inside_description
    /\ UNCHANGED returned
    /\ UNCHANGED imageVars

\* line 189: the end of the file is reached
Return ==
    /\ ~returned
    /\ returned' = TRUE
    /\ UNCHANGED <<rows, scan_params, file_descriptions, spectra_descriptions,
                   parameters, inside_description>>
    /\ UNCHANGED imageVars

ParserNext == ReadRow \/ Return

ParserSpec == ParserInit /\ [][ParserNext]_vars

----------------------------------------------------------------------------
(* Building a HyperImage from the descriptors of a parsed file *)

BuildInit ==
    /\ ParserIdle
    /\ xPixel \in 1..MaxPixel
    /\ yPixel \in 1..MaxPixel
    /\ wavelength_file \in Axes
    /\ \E n \in 0..MaxChannels, len \in PayloadLengths(Len(wavelength_file)),
          seed \in Seeds, scale \in Scales :
          channels = Descriptors(n, len, seed, scale)
    /\ ImageNew

BuildNext == HyperImage_init

BuildSpec == BuildInit /\ [][BuildNext]_vars

----------------------------------------------------------------------------
(* Building a HyperImage and querying it *)

SliceAxes == { <<3002, 3059, 3101>>,
               <<3101, 3059, 3002>>,
               <<3002, 3005, 3101>>,
               <<3059, 3002>> }

SliceInit ==
    /\ ParserIdle
    /\ xPixel \in 1..MaxPixel
    /\ yPixel \in 1..MaxPixel
    /\ wavelength_file \in SliceAxes
    /\ channels = Descriptors(1, xPixel * yPixel * Len(wavelength_file), 1, 2)
    /\ ImageNew

SliceNext == HyperImage_init \/ hyperslice

SliceSpec == SliceInit /\ [][SliceNext]_vars

----------------------------------------------------------------------------
(* The vocabulary of the statements about read_anfatec_params *)

\* what the grammar makes of a line that has been stripped
KindOfRow(row) ==
    IF row = <<>> THEN "blank"
    ELSE IF Head(row) = ";" THEN "comment"
    ELSE IF StartsWithFile(row) /\ EndsWithBegin(row) THEN "FileBegin"
    ELSE IF EndsWithSpectrumDescBegin(row) THEN "SpectrumBegin"
    ELSE IF StartsWithFile(row) /\ EndsWithEnd(row) THEN "FileEnd"
    ELSE IF EndsWithSpectrumDescEnd(row) THEN "SpectrumEnd"
    ELSE "record"

\* what the grammar makes of a line
Kind(line) == KindOfRow(Strip(line))

IsFileBegin(line) == Kind(line) = "FileBegin"

IsFileEnd(line) == Kind(line) = "FileEnd"

\* a line that is neither skipped nor structural: a data record
IsRecord(line) == Kind(line) = "record"

HasColon(line) == \E i \in 1..Len(line) : line[i] = ":"

\* the block the reader is in after a line of the given kind
ScopeAfter(before, kind) ==
    IF before = "bad" THEN "bad"
    ELSE IF kind = "FileBegin" THEN (IF before = "out" THEN "file" ELSE "bad")
    ELSE IF kind = "SpectrumBegin" THEN (IF before = "out" THEN "spec" ELSE "bad")
    ELSE IF kind = "FileEnd" THEN (IF before = "file" THEN "out" ELSE "bad")
    ELSE IF kind = "SpectrumEnd" THEN (IF before = "spec" THEN "out" ELSE "bad")
    ELSE before

\* the block the reader is in after the first n of the lines rs, as the file
\* declares it: "out", "file", "spec", or "bad" once a block is opened or
\* closed out of turn
RECURSIVE ScopeAt(_, _)
ScopeAt(rs, n) ==
    IF n = 0 THEN "out" ELSE ScopeAfter(ScopeAt(rs, n - 1), Kind(rs[n]))

Scope(rs) == ScopeAt(rs, Len(rs))

\* blocks are opened and closed in turn and every record has a separator
InTurn(rs) ==
    /\ \A i \in 1..Len(rs) : HasColon(rs[i]) \/ ~IsRecord(rs[i])
    /\ Scope(rs) # "bad"

\* in turn, and every block opened is closed
WellFormed(rs) == InTurn(rs) /\ Scope(rs) = "out"

\* the lines that close a channel block
FileEnds(rs) == {i \in 1..Len(rs) : IsFileEnd(rs[i])}

\* the position, in declaration order, of the block closed by line i
BlockNumber(rs, i) == Cardinality({j \in FileEnds(rs) : j <= i})

\* the line that opens the block closed by line i (0 if there is none)
BlockBegin(rs, i) ==
    LET begins == {j \in 1..(i - 1) : IsFileBegin(rs[j])}
    IN  IF begins = {} THEN 0 ELSE CHOOSE j \in begins : \A k \in begins : k <= j

\* the records between the opening and the closing line of the block closed by i
BlockRecords(rs, i) == {j \in (BlockBegin(rs, i) + 1)..(i - 1) : IsRecord(rs[j])}

\* C2: for a well-formed file the returned channel-descriptor list has one entry
\* per File...Begin/File...End block, and the k-th entry holds the records of
\* the k-th declared block (for a key set twice in the block, the later value).
C2_OneDescriptorPerBlock ==
    (returned /\ WellFormed(rows)) =>
        /\ Len(file_descriptions) = Cardinality(FileEnds(rows))
        /\ \A i \in FileEnds(rows) :
              LET d == file_descriptions[BlockNumber(rows, i)] IN
              \A j \in BlockRecords(rows, i) :
                  /\ KeyOf(rows[j]) \in DOMAIN d
                  /\ (\A m \in BlockRecords(rows, i) :
                          KeyOf(rows[m]) = KeyOf(rows[j]) => m <= j)
                     => d[KeyOf(rows[j])] = ValueOf(rows[j])

\* two blocks were declared and returned, the first with a record, the second without
C2_Witness ==
    /\ returned
    /\ WellFormed(rows)
    /\ Len(file_descriptions) = 2
    /\ file_descriptions[1] # EmptyDict
    /\ file_descriptions[2] = EmptyDict

\* C3: a record without ':' makes the reader fail: nothing is returned and the
\* line is not stored as a key/value pair.
C3_MalformedLineFails ==
    \A i \in 1..Len(rows) :
        (IsRecord(rows[i]) /\ ~HasColon(rows[i])) =>
            /\ ~returned
            /\ KeyOf(rows[i]) \notin DOMAIN scan_params
            /\ KeyOf(rows[i]) \notin DOMAIN parameters

LastRow == rows[Len(rows)]

\* C7 as stated: the pair of a File...End line is in the descriptor appended for
\* its block and not in the scan parameters.
C7_ClosingPairInDescriptor ==
    (rows # <<>> /\ IsFileEnd(LastRow)) =>
        LET d == file_descriptions[Len(file_descriptions)]
            k == KeyOf(LastRow)
        IN  /\ k \in DOMAIN d
            /\ d[k] = ValueOf(LastRow)
            /\ k \notin DOMAIN scan_params

\* C7 amended: on a File...End line the accumulator is appended as it stood
\* before the line, then reset, the flag is cleared, and the pair of the closing
\* line is stored in the scan parameters.
C7_ClosingPairInScanParams ==
    [][(rows' # rows /\ IsFileEnd(rows'[Len(rows')])) =>
          /\ file_descriptions' = Append(file_descriptions, parameters)
          /\ parameters' = EmptyDict
          /\ inside_description' = FALSE
          /\ scan_params' = Put(scan_params, KeyOf(rows'[Len(rows')]),
                                ValueOf(rows'[Len(rows')]))]_vars

\* a block with a record has just been closed
C7_Witness ==
    /\ rows # <<>>
    /\ IsFileEnd(LastRow)
    /\ Scope(rows) = "out"
    /\ file_descriptions[Len(file_descriptions)] # EmptyDict
    /\ KeyOf(LastRow) \in DOMAIN scan_params
    /\ scan_params[KeyOf(LastRow)] = ValueOf(LastRow)

\* C8: in a file whose blocks are opened and closed in turn, a channel
\* descriptor holds only pairs of records of its own block, and every record
\* outside all blocks is in the scan parameters.
C8_DescriptorsHoldOwnRecordsOnly ==
    InTurn(rows) =>
        /\ \A i \in FileEnds(rows) :
              LET d == file_descriptions[BlockNumber(rows, i)] IN
              \A k \in DOMAIN d :
                  \E j \in BlockRecords(rows, i) :
                      KeyOf(rows[j]) = k /\ ValueOf(rows[j]) = d[k]
        /\ \A j \in 1..Len(rows) :
              (IsRecord(rows[j]) /\ ScopeAt(rows, j - 1) = "out")
                  => KeyOf(rows[j]) \in DOMAIN scan_params

----------------------------------------------------------------------------
(* The vocabulary of the statements about HyperImage and hyperslice *)

S == Len(wavelength_file)

C == Len(channels) - 1

\* the hyperspectral payload holds yPixel rows of xPixel samples of S values
FullPayload == Len(channels[1].data) = xPixel * yPixel * S

\* the value of the payload of descriptor d at row y, column x, plane s
RawValue(d, y, x, planes, s) == channels[d].data[(y * xPixel + x) * planes + s + 1]

\* the cube and the channel stack a build of the inputs exposes
BuiltCube == Normalize(FilledHyper)

BuiltChannels == Normalize(FilledChannels)

RECURSIVE SumPlanes(_, _, _, _)
SumPlanes(cube, w, lo, hi) ==
    IF lo > hi THEN 0
    ELSE cube.at[<<w[1], w[2], lo>>] + SumPlanes(cube, w, lo + 1, hi)

BothOccur == Occurs(Wavenumberlist, call.start) /\ Occurs(Wavenumberlist, call.stop)

IndexOfStart == IndexOf(Wavenumberlist, call.start)

IndexOfStop == IndexOf(Wavenumberlist, call.stop)

\* C1: the first call on a built container, with both endpoints on the
\* truncated axis, returns over the window the sum of the planes between the
\* index of start and the index of stop, both included, each counted once,
\* whichever endpoint is the larger.
C1_SumsInclusiveSpan ==
    (status = "built" /\ calls = 1 /\ BothOccur) =>
        /\ result.kind = "array"
        /\ result.slc =
              [w \in Window(call.rows, call.cols) |->
                  SumPlanes(BuiltCube, w,
                            Min(IndexOfStart, IndexOfStop),
                            IndexOfStart + IndexOfStop - Min(IndexOfStart, IndexOfStop))]

\* C4: before the orientation is normalized, grid[x, y] is the scale times the
\* raw value at row y, column x, for the hyperspectral grid and every channel plane.
C4_GridIsScaledPayload ==
    status = "built" =>
        /\ FullPayload =>
              /\ local_hyper_image.shape = <<xPixel, yPixel, S>>
              /\ \A x \in 0..(xPixel - 1), y \in 0..(yPixel - 1), s \in 0..(S - 1) :
                    local_hyper_image.at[<<x, y, s>>]
                        = channels[1].Scale * RawValue(1, y, x, S, s)
        /\ local_channel_data.shape = <<xPixel, yPixel, C>>
        /\ \A x \in 0..(xPixel - 1), y \in 0..(yPixel - 1), ch \in 0..(C - 1) :
              local_channel_data.at[<<x, y, ch>>]
                  = channels[ch + 2].Scale * RawValue(ch + 2, y, x, 1, 0)

\* a build of two columns, one row, three planes and two channels
C4_Witness ==
    /\ status = "built"
    /\ FullPayload
    /\ xPixel = 2 /\ yPixel = 1 /\ S = 3 /\ C = 2
    /\ local_hyper_image.at[<<1, 0, 2>>] = channels[1].Scale * channels[1].data[6]
    /\ local_channel_data.at[<<1, 0, 1>>] = channels[3].Scale * channels[3].data[2]

\* C5 as stated: the exposed arrays have shape (xPixel, yPixel, S) and
\* (xPixel, yPixel, C).
C5_ShapeIsXbyY ==
    status = "built" =>
        /\ hyper_image.shape = <<xPixel, yPixel, S>>
        /\ channel_data.shape = <<xPixel, yPixel, C>>

\* C5 amended: the exposed arrays have shape (yPixel, xPixel, S) and
\* (yPixel, xPixel, C).
C5_ShapeIsYbyX ==
    status = "built" =>
        /\ hyper_image.shape = <<yPixel, xPixel, S>>
        /\ channel_data.shape = <<yPixel, xPixel, C>>

\* a build that is not square
C5_Witness ==
    /\ status = "built"
    /\ xPixel # yPixel
    /\ C >= 1
    /\ hyper_image.shape[1] = yPixel
    /\ channel_data.shape[2] = xPixel

\* C6: a call whose endpoints are both found and whose span, stop_index minus
\* start_index, is negative fails with EmptyRange.
C6_EmptyRangeRaised ==
    (status = "built" /\ calls >= 1 /\ BothOccur /\ IndexOfStart - IndexOfStop < 0) =>
        result.kind = "EmptyRange"

\* C9: hyperslice leaves the container as the build made it.
C9_ContainerUnchanged ==
    status = "built" =>
        /\ hyper_image = BuiltCube
        /\ channel_data = BuiltChannels
        /\ wavelength_data = wavelength_file

\* C10: after a build the exposed arrays are in the scan order of the files:
\* hyper_image[r, c, s] is the scale times the raw value (r * xPixel + c) * S + s,
\* channel_data[r, c, ch] the scale of the channel times its raw value
\* r * xPixel + c, and channel_names[ch] the caption of descriptor ch + 1.
C10_ScanOrder ==
    (status = "built" /\ calls = 0) =>
        /\ FullPayload =>
              \A r \in 0..(yPixel - 1), c \in 0..(xPixel - 1), s \in 0..(S - 1) :
                  hyper_image.at[<<r, c, s>>]
                      = channels[1].Scale * channels[1].data[(r * xPixel + c) * S + s + 1]
        /\ \A r \in 0..(yPixel - 1), c \in 0..(xPixel - 1), ch \in 0..(C - 1) :
              channel_data.at[<<r, c, ch>>]
                  = channels[ch + 2].Scale * channels[ch + 2].data[r * xPixel + c + 1]
        /\ Len(channel_names) = C
        /\ \A ch \in 0..(C - 1) : channel_names[ch + 1] = channels[ch + 2].Caption

\* a build of two rows and two columns with a channel
C10_Witness ==
    /\ status = "built"
    /\ calls = 0
    /\ FullPayload
    /\ xPixel = 2 /\ yPixel = 2 /\ S >= 2 /\ C >= 1
    /\ hyper_image.at[<<1, 0, 1>>] = channels[1].Scale * channels[1].data[2 * S + 2]
    /\ channel_names[1] = <<"channel", 1>>

====
